---- MODULE Spec2Model ----
(***************************************************************************)
(* Machine ASoC driver for the ChamSys MQ50HD/MQ70HD consoles              *)
(* (sound/soc/rockchip/rk3288_chamsys_audio.c): master-clock distribution  *)
(* and ES8328 register programming at card init, stream startup,          *)
(* hw_params and stream shutdown.                                          *)
(*                                                                         *)
(* The handlers are modelled as operators that return the value the        *)
(* handler returns together with the sequence of calls it issues to the    *)
(* DAI and codec-component collaborators (snd_soc_dai_set_sysclk,          *)
(* snd_soc_component_write), in program order.  An action runs one         *)
(* handler to completion and applies its calls to the hardware state.      *)
(***************************************************************************)
EXTENDS Integers, Sequences, FiniteSets

(* ------------------------------------------------------------------ *)
(* Program constants                                                  *)
(* ------------------------------------------------------------------ *)

\* #define CSYS_AUDIO_MCLK 11289600
CSYS_AUDIO_MCLK == 11289600
\* #define CSYS_AUDIO_MCLK_FS 256
CSYS_AUDIO_MCLK_FS == 256
\* #define CSYS_AUDIO_LRCLK 44100
CSYS_AUDIO_LRCLK == 44100
\* errno value behind -EINVAL
EINVAL == 22
\* errno value behind -ENOMEM
ENOMEM == 12
\* errno value behind -EPROBE_DEFER
EPROBE_DEFER == 517
\* direction argument of snd_soc_dai_set_sysclk
SND_SOC_CLOCK_OUT == 1
\* the address byte that ends a register table (0xFF)
REG_END == 255
\* DAC LOUT1 volume register (0x2e)
REG_LOUT1 == 46
\* DAC ROUT1 volume register (0x2f)
REG_ROUT1 == 47
\* number of components a runtime with a bound codec carries
CODEC_LINK_COMPONENTS == 3

Byte == 0..255

\* static unsigned char csys_es8328_regs[]: the flat byte array, address
\* bytes at even C offsets, value bytes at odd ones.
csys_es8328_regs ==
    <<  0,  53,     \* 0x00, 0x35  ADC+DAC fs, power seq, ref
        3,   9,     \* 0x03, 0x09  ADC power
        9,   0,     \* 0x09, 0x00  ADC gain
       10,   0,     \* 0x0a, 0x00  ADC input select
       11,   0,     \* 0x0b, 0x00  ADC input select
       16,   0,     \* 0x10, 0x00  ADC left volume
       17,   0,     \* 0x11, 0x00  ADC right volume
       18, 234,     \* 0x12, 0xea  ADC ALC on, min/max gain
       19, 192,     \* 0x13, 0xc0  ADC ALC timing
       20,   5,     \* 0x14, 0x05  ADC ALC timing
       21,   6,     \* 0x15, 0x06  ADC ALC params
       22,  83,     \* 0x16, 0x53  ADC Gate on
       25,   2,     \* 0x19, 0x02  DAC mute, volume control
       26,  10,     \* 0x1A, 0x0A  DAC left volume
       27,  10,     \* 0x1B, 0x0A  DAC right volume
       38,  18,     \* 0x26, 0x12  DAC mixer
       39, 184,     \* 0x27, 0xb8  DAC mixer
       40,  56,     \* 0x28, 0x38  DAC mixer
       41,  56,     \* 0x29, 0x38  DAC mixer
       42, 184,     \* 0x2A, 0xb8  DAC mixer
       46,  36,     \* 0x2e, 0x24  DAC LOUT1 volume
       47,  36,     \* 0x2f, 0x24  DAC ROUT1 volume
       48,   0,     \* 0x30, 0x00  DAC LOUT2 volume
       49,   0,     \* 0x31, 0x00  DAC ROUT2 volume
      255, 255 >>   \* 0xFF, 0xFF

\* A quiet table whose first address is mistyped (0x2d for 0x2e).
csys_es8328_regs_quiet_typo ==
    << 45,   0,
       47,   0,
      255, 255 >>

\* A quiet table that also zeroes the DAC left volume (0x1A).
csys_es8328_regs_quiet_wide ==
    << 46,   0,
       47,   0,
       26,   0,
      255, 255 >>

\* unsigned char csys_es8328_regs_quiet[]
csys_es8328_regs_quiet ==
    << 46,   0,     \* 0x2e, 0x00  DAC LOUT1 volume
       47,   0,     \* 0x2f, 0x00  DAC ROUT1 volume
      255, 255 >>   \* 0xFF, 0xFF

(* ------------------------------------------------------------------ *)
(* Calls to the collaborators                                         *)
(* ------------------------------------------------------------------ *)

\* snd_soc_dai_set_sysclk(dai, 0, freq, dir) on the cpu or the codec DAI,
\* answered with r by the DAI driver.
SysclkCall(dai, freq, dir, r) ==
    [op |-> "set_sysclk", dev |-> dai, a |-> freq, b |-> dir, ret |-> r]

\* snd_soc_component_write(codec, reg, val) on components[1].
WriteCall(reg, val) ==
    [op |-> "write", dev |-> "components[1]", a |-> reg, b |-> val, ret |-> 0]

Result(r, cs) == [ret |-> r, calls |-> cs]

(* ------------------------------------------------------------------ *)
(* The driver's functions                                             *)
(* ------------------------------------------------------------------ *)

\* The loop of csys_audio_set_es8328_regs from C index i on:
\*   for(i = 0; regs[i] != 0xFF; i += 2) write(regs[i], regs[i+1]);
\* regs[i] of the C array is tbl[i + 1] here.  Every table this model
\* passes carries its end marker at an even offset, so the loop never
\* reads beyond the array; the length test only keeps the operator total.
RECURSIVE SetRegsLoop(_, _)
SetRegsLoop(tbl, i) ==
    IF i + 2 > Len(tbl) \/ tbl[i + 1] = REG_END
    THEN << >>
    ELSE << WriteCall(tbl[i + 1], tbl[i + 2]) >> \o SetRegsLoop(tbl, i + 2)

\* The C index at which that loop ends, from index i on: the offset of the
\* address byte 0xFF it stops at, or -1 when it would read regs[i] or
\* regs[i+1] beyond the last byte of the array.
RECURSIVE SetRegsExit(_, _)
SetRegsExit(tbl, i) ==
    IF i >= Len(tbl) THEN -1
    ELSE IF tbl[i + 1] = REG_END THEN i
    ELSE IF i + 1 >= Len(tbl) THEN -1
    ELSE SetRegsExit(tbl, i + 2)

\* A loop that also stops at a value byte 0xFF.
SetRegsLoopAnyFF(tbl) ==
    LET RECURSIVE Go(_)
        Go(i) == IF i + 2 > Len(tbl) \/ tbl[i + 1] = REG_END
                                     \/ tbl[i + 2] = REG_END
                 THEN << >>
                 ELSE << WriteCall(tbl[i + 1], tbl[i + 2]) >> \o Go(i + 2)
    IN Go(0)

\* A loop that advances one byte per iteration.
SetRegsLoopByteStep(tbl) ==
    LET RECURSIVE Go(_)
        Go(i) == IF i + 2 > Len(tbl) \/ tbl[i + 1] = REG_END
                 THEN << >>
                 ELSE << WriteCall(tbl[i + 1], tbl[i + 2]) >> \o Go(i + 1)
    IN Go(0)

csys_audio_set_es8328_regs(tbl) == SetRegsLoop(tbl, 0)

\* A synchronizer that goes on to the codec DAI after the cpu DAI failed.
csys_audio_set_mclk_no_abort(r_cpu, r_codec) ==
    Result(IF r_cpu # 0 THEN r_cpu ELSE r_codec,
           << SysclkCall("cpu", CSYS_AUDIO_MCLK, SND_SOC_CLOCK_OUT, r_cpu),
              SysclkCall("codec", CSYS_AUDIO_MCLK, SND_SOC_CLOCK_OUT, r_codec) >>)

\* A synchronizer that programs the codec DAI first.
csys_audio_set_mclk_codec_first(r_cpu, r_codec) ==
    IF r_codec # 0
    THEN Result(r_codec,
           << SysclkCall("codec", CSYS_AUDIO_MCLK, SND_SOC_CLOCK_OUT, r_codec) >>)
    ELSE Result(r_cpu,
           << SysclkCall("codec", CSYS_AUDIO_MCLK, SND_SOC_CLOCK_OUT, r_codec),
              SysclkCall("cpu", CSYS_AUDIO_MCLK, SND_SOC_CLOCK_OUT, r_cpu) >>)

\* A synchronizer that tells the codec DAI the master clock of a 48 kHz
\* stream.
csys_audio_set_mclk_codec_48k(r_cpu, r_codec) ==
    IF r_cpu # 0
    THEN Result(r_cpu,
           << SysclkCall("cpu", CSYS_AUDIO_MCLK, SND_SOC_CLOCK_OUT, r_cpu) >>)
    ELSE Result(r_codec,
           << SysclkCall("cpu", CSYS_AUDIO_MCLK, SND_SOC_CLOCK_OUT, r_cpu),
              SysclkCall("codec", CSYS_AUDIO_MCLK_FS * 48000, SND_SOC_CLOCK_OUT,
                         r_codec) >>)

\* csys_audio_set_mclk(runtime); r_cpu and r_codec are what the two DAIs
\* answer to snd_soc_dai_set_sysclk.
csys_audio_set_mclk(r_cpu, r_codec) ==
    IF r_cpu # 0
    THEN Result(r_cpu,
           << SysclkCall("cpu", CSYS_AUDIO_MCLK, SND_SOC_CLOCK_OUT, r_cpu) >>)
    ELSE Result(r_codec,
           << SysclkCall("cpu", CSYS_AUDIO_MCLK, SND_SOC_CLOCK_OUT, r_cpu),
              SysclkCall("codec", CSYS_AUDIO_MCLK, SND_SOC_CLOCK_OUT, r_codec) >>)

\* An hw_params whose rate test is inverted.
csys_audio_hw_params_inverted(rate, r_cpu, r_codec) ==
    IF rate = CSYS_AUDIO_LRCLK
    THEN Result(-EINVAL, << >>)
    ELSE csys_audio_set_mclk(r_cpu, r_codec)

\* csys_audio_hw_params(substream, params), rate = params_rate(params).
csys_audio_hw_params(rate, r_cpu, r_codec) ==
    IF rate # CSYS_AUDIO_LRCLK
    THEN Result(-EINVAL, << >>)
    ELSE csys_audio_set_mclk(r_cpu, r_codec)

\* rtd->num_components == 3 && rtd->components[1]
\* (comp1 is TRUE when components[1] is a non-null pointer).
CodecBound(nc, comp1) == nc = CODEC_LINK_COMPONENTS /\ comp1

\* A startup that looks at components[1] only.
csys_audio_startup_no_count(nc, comp1) ==
    Result(0, IF comp1 THEN csys_audio_set_es8328_regs(csys_es8328_regs)
                       ELSE << >>)

\* csys_audio_startup(substream)
csys_audio_startup(nc, comp1) ==
    Result(0, IF CodecBound(nc, comp1)
              THEN csys_audio_set_es8328_regs(csys_es8328_regs)
              ELSE << >>)

\* A shutdown that mutes without asking whether a codec is bound.
csys_audio_shutdown_unchecked(nc, comp1) ==
    csys_audio_set_es8328_regs(csys_es8328_regs_quiet)

\* A shutdown that leaves the codec alone.
csys_audio_shutdown_no_mute(nc, comp1) == << >>

\* csys_audio_shutdown(substream): void, only its calls.
csys_audio_shutdown(nc, comp1) ==
    IF CodecBound(nc, comp1)
    THEN csys_audio_set_es8328_regs(csys_es8328_regs_quiet)
    ELSE << >>

\* An init that programs the full operating table.
csys_audio_init_active(nc, comp1, r_cpu, r_codec) ==
    LET clk == csys_audio_set_mclk(r_cpu, r_codec) IN
    IF clk.ret # 0
    THEN clk
    ELSE Result(0, clk.calls \o
                   (IF CodecBound(nc, comp1)
                    THEN csys_audio_set_es8328_regs(csys_es8328_regs)
                    ELSE << >>))

\* An init that mutes before it looks at the clock result.
csys_audio_init_mute_first(nc, comp1, r_cpu, r_codec) ==
    LET clk == csys_audio_set_mclk(r_cpu, r_codec) IN
    Result(clk.ret, clk.calls \o
                    (IF CodecBound(nc, comp1)
                     THEN csys_audio_set_es8328_regs(csys_es8328_regs_quiet)
                     ELSE << >>))

\* csys_audio_init(runtime)
csys_audio_init(nc, comp1, r_cpu, r_codec) ==
    LET clk == csys_audio_set_mclk(r_cpu, r_codec) IN
    IF clk.ret # 0
    THEN clk
    ELSE Result(0, clk.calls \o
                   (IF CodecBound(nc, comp1)
                    THEN csys_audio_set_es8328_regs(csys_es8328_regs_quiet)
                    ELSE << >>))

(* ------------------------------------------------------------------ *)
(* Hardware: what the calls do                                        *)
(* ------------------------------------------------------------------ *)

\* A set_sysclk the DAI accepted (ret 0) leaves that DAI configured with
\* the frequency and direction asked for; a refused one changes nothing.
\* A component write stores the value in the codec register.
HwCall(h, c) ==
    IF c.op = "write"
    THEN [h EXCEPT !.regs = [x \in Byte |-> IF x = c.a THEN c.b ELSE h.regs[x]]]
    ELSE IF c.ret # 0 THEN h
    ELSE IF c.dev = "cpu"
         THEN [h EXCEPT !.cpu = [freq |-> c.a, dir |-> c.b]]
         ELSE [h EXCEPT !.codec = [freq |-> c.a, dir |-> c.b]]

RECURSIVE HwApply(_, _)
HwApply(h, cs) ==
    IF cs = << >> THEN h ELSE HwApply(HwCall(h, Head(cs)), Tail(cs))

(* ------------------------------------------------------------------ *)
(* Bounds and input sets                                              *)
(* ------------------------------------------------------------------ *)

\* rejected hw_params calls followed per card
MaxRejected == 2
\* entries before the end marker of a generated register table
MaxEntries == 3
\* tables applied one after the other to one codec
MaxApplied == 3

\* sample rates an application asks for
Rates == {CSYS_AUDIO_LRCLK, 48000, 22050}
\* answers of snd_soc_dai_set_sysclk: 0 or a negative errno
SysclkAnswers == {0, -EINVAL, -5}
\* rtd->num_components of the runtimes considered
ComponentCounts == {2, 3, 4}
\* LOUT1/ROUT1 volume the codec holds when the driver binds
PowerOnVolumes == {0, 36}

ClockUnset == [freq |-> 0, dir |-> 0]

VARIABLES
    num_components,  \* rtd->num_components
    comp1,           \* rtd->components[1] != NULL
    regs,            \* ES8328 register file, address -> value
    cpu_clk,         \* sysclk configuration of the cpu (interface) DAI
    codec_clk,       \* sysclk configuration of the codec DAI
    state,           \* position of the framework in the card/stream lifecycle
    lastOp,          \* handler that ran last
    req,             \* its inputs, and the lifecycle state it ran in
    ret,             \* value the last int-returning handler returned
    calls,           \* calls the last handler issued, in order
    entry,           \* hardware state when the current stream start began
    nRejected,       \* hw_params calls rejected for their rate so far
    profile,         \* table handed to csys_audio_set_es8328_regs last
    applied,         \* tables applied one after the other to one codec
    hist,            \* the register file before and after each of them
    sub,             \* per substream of the link: its position
    probe            \* inputs and outcome of the last csys_audio_probe

\* the state the lifecycle handlers neither read nor write
aux == << applied, hist, sub, probe >>

vars == << num_components, comp1, regs, cpu_clk, codec_clk, state, lastOp,
           req, ret, calls, entry, nRejected, profile, aux >>

\* the two substreams of the link (SNDRV_PCM_STREAM_PLAYBACK, _CAPTURE)
Substreams == {"playback", "capture"}

NoSub == [s \in Substreams |-> "Closed"]

NoProbe == [ret |-> 0, registered |-> FALSE, init_run |-> FALSE,
            alloc |-> TRUE, cpu_np |-> TRUE, codec_np |-> TRUE,
            r_args |-> 0, r_name |-> 0, r_card |-> 0]

AuxInit ==
    /\ applied = << >>
    /\ hist = << >>
    /\ sub = NoSub
    /\ probe = NoProbe

Hw == [regs |-> regs, cpu |-> cpu_clk, codec |-> codec_clk]

CodecPresent == CodecBound(num_components, comp1)

NoReq == [rate |-> 0, r_cpu |-> 0, r_codec |-> 0, from |-> "none"]

PowerOnRegs(l, r) ==
    [x \in Byte |-> IF x = REG_LOUT1 THEN l ELSE IF x = REG_ROUT1 THEN r ELSE 0]

Init ==
    /\ num_components \in ComponentCounts
    /\ comp1 \in BOOLEAN
    /\ \E l \in PowerOnVolumes, r \in PowerOnVolumes : regs = PowerOnRegs(l, r)
    /\ cpu_clk = ClockUnset
    /\ codec_clk = ClockUnset
    /\ state = "Idle"
    /\ lastOp = "none"
    /\ req = NoReq
    /\ ret = 0
    /\ calls = << >>
    /\ entry = [regs |-> regs, cpu |-> cpu_clk, codec |-> codec_clk]
    /\ nRejected = 0
    /\ profile = << >>
    /\ AuxInit

\* The hardware after the calls cs.
Effects(cs) ==
    LET h == HwApply(Hw, cs) IN
    /\ regs' = h.regs
    /\ cpu_clk' = h.cpu
    /\ codec_clk' = h.codec
    /\ calls' = cs

\* dai_link.init = csys_audio_init: run by card registration; a failed
\* registration may be tried again.
CardInit ==
    /\ state \in {"Idle", "InitFailed"}
    /\ \E r_cpu \in SysclkAnswers, r_codec \in SysclkAnswers :
         LET res == csys_audio_init(num_components, comp1, r_cpu, r_codec) IN
         /\ Effects(res.calls)
         /\ ret' = res.ret
         /\ state' = IF res.ret = 0 THEN "Initialized" ELSE "InitFailed"
         /\ req' = [rate |-> 0, r_cpu |-> r_cpu, r_codec |-> r_codec,
                    from |-> state]
    /\ lastOp' = "init"
    /\ profile' = IF CodecPresent /\ ret' = 0
                  THEN csys_es8328_regs_quiet ELSE profile
    /\ UNCHANGED << num_components, comp1, entry, nRejected >>
    /\ UNCHANGED aux

\* rk_ops.startup = csys_audio_startup: run when the stream is opened.
Startup ==
    /\ state \in {"Initialized", "Stopped"}
    /\ LET res == csys_audio_startup(num_components, comp1) IN
         /\ Effects(res.calls)
         /\ ret' = res.ret
    /\ state' = "Opened"
    /\ lastOp' = "startup"
    /\ req' = [NoReq EXCEPT !.from = state]
    /\ entry' = Hw
    /\ profile' = IF CodecPresent THEN csys_es8328_regs ELSE profile
    /\ UNCHANGED << num_components, comp1, nRejected >>
    /\ UNCHANGED aux

\* rk_ops.hw_params = csys_audio_hw_params: run on the open stream, after
\* startup; the application may ask again on the same open stream.
HwParams ==
    /\ state \in {"Opened", "Streaming", "Rejected", "ClockFailed"}
    /\ \E rate \in Rates, r_cpu \in SysclkAnswers, r_codec \in SysclkAnswers :
         LET res == csys_audio_hw_params(rate, r_cpu, r_codec) IN
         /\ rate # CSYS_AUDIO_LRCLK => nRejected < MaxRejected
         /\ Effects(res.calls)
         /\ ret' = res.ret
         /\ state' = IF res.ret = 0 THEN "Streaming"
                     ELSE IF rate # CSYS_AUDIO_LRCLK THEN "Rejected"
                     ELSE "ClockFailed"
         /\ nRejected' = IF rate # CSYS_AUDIO_LRCLK
                         THEN nRejected + 1 ELSE nRejected
         /\ req' = [rate |-> rate, r_cpu |-> r_cpu, r_codec |-> r_codec,
                    from |-> state]
    /\ lastOp' = "hw_params"
    /\ entry' = IF state = "Opened" THEN entry ELSE Hw
    /\ UNCHANGED << num_components, comp1, profile >>
    /\ UNCHANGED aux

\* rk_ops.shutdown = csys_audio_shutdown: run when the stream is closed,
\* whatever hw_params returned.
Shutdown ==
    /\ state \in {"Opened", "Streaming", "Rejected", "ClockFailed"}
    /\ Effects(csys_audio_shutdown(num_components, comp1))
    /\ state' = "Stopped"
    /\ lastOp' = "shutdown"
    /\ req' = [NoReq EXCEPT !.from = state]
    /\ profile' = IF CodecPresent THEN csys_es8328_regs_quiet ELSE profile
    /\ UNCHANGED << num_components, comp1, ret, entry, nRejected >>
    /\ UNCHANGED aux

Next == CardInit \/ Startup \/ HwParams \/ Shutdown

Spec == Init /\ [][Next]_vars

(* ------------------------------------------------------------------ *)
(* The register programmer on its own                                 *)
(* ------------------------------------------------------------------ *)

\* Flat byte array of a sequence of (address, value) pairs.
Flat(ps) ==
    [k \in 1..(2 * Len(ps)) |->
        IF k % 2 = 1 THEN ps[(k + 1) \div 2][1] ELSE ps[k \div 2][2]]

\* address and value bytes of generated entries
GenAddrs == {REG_LOUT1, REG_ROUT1}
GenVals == {0, REG_END}

\* Generated tables: up to MaxEntries entries with an address other than
\* 0xFF, the end entry (0xFF, v), and possibly one more entry behind it.
GenTables ==
    { Flat(ps) \o << REG_END, v >> \o t :
        ps \in UNION { [1..n -> GenAddrs \X GenVals] : n \in 0..MaxEntries },
        v \in {0, REG_END},
        t \in { << >>, << REG_LOUT1, 36 >>, << REG_END, 36 >> } }

Tables == {csys_es8328_regs, csys_es8328_regs_quiet} \cup GenTables

InitProfile ==
    /\ num_components = CODEC_LINK_COMPONENTS
    /\ comp1 = TRUE
    /\ \E l \in PowerOnVolumes, r \in PowerOnVolumes : regs = PowerOnRegs(l, r)
    /\ cpu_clk = ClockUnset
    /\ codec_clk = ClockUnset
    /\ state = "Idle"
    /\ lastOp = "none"
    /\ req = NoReq
    /\ ret = 0
    /\ calls = << >>
    /\ entry = [regs |-> regs, cpu |-> cpu_clk, codec |-> codec_clk]
    /\ nRejected = 0
    /\ profile \in Tables
    /\ AuxInit

\* One call csys_audio_set_es8328_regs(codec, profile).
SetRegs ==
    /\ lastOp = "none"
    /\ Effects(csys_audio_set_es8328_regs(profile))
    /\ lastOp' = "set_regs"
    /\ UNCHANGED << num_components, comp1, state, req, ret, entry,
                    nRejected, profile >>
    /\ UNCHANGED aux

NextProfile == SetRegs

SpecProfile == InitProfile /\ [][NextProfile]_vars

(* ------------------------------------------------------------------ *)
(* Tables applied one after the other                                 *)
(* ------------------------------------------------------------------ *)

\* values a codec register holds before the first table is applied
StartValues == {0, 36, 255}

\* A register file with l in LOUT1, r in ROUT1 and o everywhere else.
StartRegs(l, r, o) ==
    [x \in Byte |-> IF x = REG_LOUT1 THEN l ELSE IF x = REG_ROUT1 THEN r ELSE o]

InitAlgebra ==
    /\ num_components = CODEC_LINK_COMPONENTS
    /\ comp1 = TRUE
    /\ \E l \in StartValues, r \in StartValues, o \in {0, 255} :
          regs = StartRegs(l, r, o)
    /\ cpu_clk = ClockUnset
    /\ codec_clk = ClockUnset
    /\ state = "Idle"
    /\ lastOp = "none"
    /\ req = NoReq
    /\ ret = 0
    /\ calls = << >>
    /\ entry = [regs |-> regs, cpu |-> cpu_clk, codec |-> codec_clk]
    /\ nRejected = 0
    /\ profile = << >>
    /\ applied = << >>
    /\ hist = << regs >>
    /\ sub = NoSub
    /\ probe = NoProbe

\* csys_audio_set_es8328_regs(codec, tbl) on the codec as it stands.
ApplyTable(name, tbl) ==
    /\ Len(applied) < MaxApplied
    /\ Effects(csys_audio_set_es8328_regs(tbl))
    /\ profile' = tbl
    /\ applied' = Append(applied, name)
    /\ hist' = Append(hist, regs')
    /\ entry' = Hw
    /\ lastOp' = "set_regs"
    /\ UNCHANGED << num_components, comp1, state, req, ret, nRejected,
                    sub, probe >>

ApplyActive == ApplyTable("ACTIVE", csys_es8328_regs)

ApplyQuiet == ApplyTable("QUIET", csys_es8328_regs_quiet)

NextAlgebra == ApplyActive \/ ApplyQuiet

SpecAlgebra == InitAlgebra /\ [][NextAlgebra]_vars

(* ------------------------------------------------------------------ *)
(* Playback and capture open at the same time                         *)
(* ------------------------------------------------------------------ *)

SubOpen == {"Opened", "Streaming", "Rejected", "ClockFailed"}

\* rk_ops.startup on substream s of the initialized card.
SubStartup(s) ==
    /\ state = "Initialized"
    /\ sub[s] = "Closed"
    /\ LET res == csys_audio_startup(num_components, comp1) IN
         /\ Effects(res.calls)
         /\ ret' = res.ret
    /\ sub' = [sub EXCEPT ![s] = "Opened"]
    /\ lastOp' = "startup"
    /\ req' = [NoReq EXCEPT !.from = sub[s]]
    /\ entry' = Hw
    /\ profile' = IF CodecPresent THEN csys_es8328_regs ELSE profile
    /\ UNCHANGED << num_components, comp1, state, nRejected, applied, hist,
                    probe >>

\* rk_ops.hw_params on the open substream s.
SubHwParams(s) ==
    /\ state = "Initialized"
    /\ sub[s] \in SubOpen
    /\ \E rate \in Rates, r_cpu \in SysclkAnswers, r_codec \in SysclkAnswers :
         LET res == csys_audio_hw_params(rate, r_cpu, r_codec) IN
         /\ Effects(res.calls)
         /\ ret' = res.ret
         /\ sub' = [sub EXCEPT ![s] =
                       IF res.ret = 0 THEN "Streaming"
                       ELSE IF rate # CSYS_AUDIO_LRCLK THEN "Rejected"
                       ELSE "ClockFailed"]
         /\ req' = [rate |-> rate, r_cpu |-> r_cpu, r_codec |-> r_codec,
                    from |-> sub[s]]
    /\ lastOp' = "hw_params"
    /\ entry' = IF sub[s] = "Opened" THEN entry ELSE Hw
    /\ UNCHANGED << num_components, comp1, state, nRejected, profile,
                    applied, hist, probe >>

\* rk_ops.shutdown on the open substream s.
SubShutdown(s) ==
    /\ state = "Initialized"
    /\ sub[s] \in SubOpen
    /\ Effects(csys_audio_shutdown(num_components, comp1))
    /\ sub' = [sub EXCEPT ![s] = "Closed"]
    /\ lastOp' = "shutdown"
    /\ req' = [NoReq EXCEPT !.from = sub[s]]
    /\ profile' = IF CodecPresent THEN csys_es8328_regs_quiet ELSE profile
    /\ UNCHANGED << num_components, comp1, state, ret, entry, nRejected,
                    applied, hist, probe >>

DuplexStartup == \E s \in Substreams : SubStartup(s)
DuplexHwParams == \E s \in Substreams : SubHwParams(s)
DuplexShutdown == \E s \in Substreams : SubShutdown(s)

NextDuplex == CardInit \/ DuplexStartup \/ DuplexHwParams \/ DuplexShutdown

SpecDuplex == Init /\ [][NextDuplex]_vars

(* ------------------------------------------------------------------ *)
(* Probe                                                              *)
(* ------------------------------------------------------------------ *)

ProbeResult(r, reg) == [ret |-> r, registered |-> reg]

\* A probe that does not look at what snd_soc_get_dai_name returned.
csys_audio_probe_ignore_name(alloc, cpu_np, codec_np, r_args, r_name, r_card) ==
    IF ~alloc THEN ProbeResult(-ENOMEM, FALSE)
    ELSE IF ~cpu_np THEN ProbeResult(-EINVAL, FALSE)
    ELSE IF ~codec_np THEN ProbeResult(-EINVAL, FALSE)
    ELSE IF r_args # 0 THEN ProbeResult(r_args, FALSE)
    ELSE ProbeResult(r_card, TRUE)

\* csys_audio_probe(pdev).  alloc: devm_kzalloc returned memory; cpu_np,
\* codec_np: of_parse_phandle found "chamsys,audio-cpu" /
\* "chamsys,audio-codec"; r_args, r_name, r_card: what
\* of_parse_phandle_with_fixed_args, snd_soc_get_dai_name and
\* devm_snd_soc_register_card return.  registered: the card registration
\* was called.
csys_audio_probe(alloc, cpu_np, codec_np, r_args, r_name, r_card) ==
    IF ~alloc THEN ProbeResult(-ENOMEM, FALSE)
    ELSE IF ~cpu_np THEN ProbeResult(-EINVAL, FALSE)
    ELSE IF ~codec_np THEN ProbeResult(-EINVAL, FALSE)
    ELSE IF r_args # 0 THEN ProbeResult(r_args, FALSE)
    ELSE IF r_name # 0 THEN ProbeResult(r_name, FALSE)
    ELSE IF r_card = -EPROBE_DEFER THEN ProbeResult(-EPROBE_DEFER, TRUE)
    ELSE ProbeResult(r_card, TRUE)

\* answers of of_parse_phandle_with_fixed_args
ArgsAnswers == {0, -EINVAL}
\* answers of snd_soc_get_dai_name
NameAnswers == {0, -EINVAL, -EPROBE_DEFER}
\* what devm_snd_soc_register_card does when called: defer or fail
\* before the link is initialized, or run csys_dailink.init and fail with
\* its error
CardAnswers == {"defer", "fail", "init"}

InitProbe ==
    /\ num_components \in ComponentCounts
    /\ comp1 \in BOOLEAN
    /\ \E l \in PowerOnVolumes, r \in PowerOnVolumes : regs = PowerOnRegs(l, r)
    /\ cpu_clk = ClockUnset
    /\ codec_clk = ClockUnset
    /\ state = "Unprobed"
    /\ lastOp = "none"
    /\ req = NoReq
    /\ ret = 0
    /\ calls = << >>
    /\ entry = [regs |-> regs, cpu |-> cpu_clk, codec |-> codec_clk]
    /\ nRejected = 0
    /\ profile = << >>
    /\ AuxInit

\* platform_driver.probe = csys_audio_probe; a deferred probe is run
\* again by the driver core.
Probe ==
    /\ state \in {"Unprobed", "Deferred"}
    /\ \E alloc \in BOOLEAN, cpu_np \in BOOLEAN, codec_np \in BOOLEAN,
          r_args \in ArgsAnswers, r_name \in NameAnswers,
          how \in CardAnswers,
          r_cpu \in SysclkAnswers, r_codec \in SysclkAnswers :
         LET init == csys_audio_init(num_components, comp1, r_cpu, r_codec)
             r_card == IF how = "defer" THEN -EPROBE_DEFER
                       ELSE IF how = "fail" THEN -EINVAL
                       ELSE init.ret
             res == csys_audio_probe(alloc, cpu_np, codec_np, r_args, r_name,
                                     r_card)
             ran == res.registered /\ how = "init"
         IN
         /\ Effects(IF ran THEN init.calls ELSE << >>)
         /\ ret' = res.ret
         /\ state' = IF res.ret = -EPROBE_DEFER THEN "Deferred"
                     ELSE IF res.ret = 0 THEN "Initialized"
                     ELSE IF ran THEN "InitFailed"
                     ELSE "ProbeFailed"
         /\ probe' = [ret |-> res.ret, registered |-> res.registered,
                      init_run |-> ran, alloc |-> alloc, cpu_np |-> cpu_np,
                      codec_np |-> codec_np, r_args |-> r_args,
                      r_name |-> r_name, r_card |-> r_card]
         /\ req' = [rate |-> 0, r_cpu |-> r_cpu, r_codec |-> r_codec,
                    from |-> state]
         /\ profile' = IF ran /\ init.ret = 0 /\ CodecPresent
                       THEN csys_es8328_regs_quiet ELSE profile
    /\ lastOp' = "probe"
    /\ entry' = Hw
    /\ UNCHANGED << num_components, comp1, nRejected, applied, hist, sub >>

NextProbe == Probe \/ Startup \/ HwParams \/ Shutdown

SpecProbe == InitProbe /\ [][NextProbe]_vars

(* ------------------------------------------------------------------ *)
(* Properties                                                         *)
(* ------------------------------------------------------------------ *)

IsWrite(c) == c.op = "write"
IsSysclk(c) == c.op = "set_sysclk"
Writes(cs) == SelectSeq(cs, IsWrite)
Clocks(cs) == SelectSeq(cs, IsSysclk)

\* number of (address, value) entries of a table, end entry included
NumEntries(tbl) == Len(tbl) \div 2
AddrAt(tbl, k) == tbl[2 * k - 1]
ValAt(tbl, k) == tbl[2 * k]

\* position of the first entry whose address is 0xFF
EndEntry(tbl) ==
    CHOOSE k \in 1..NumEntries(tbl) :
        /\ AddrAt(tbl, k) = REG_END
        /\ \A j \in 1..(k - 1) : AddrAt(tbl, j) # REG_END

\* the writes a table stands for: its entries before the end entry
TableWrites(tbl) ==
    [k \in 1..(EndEntry(tbl) - 1) |-> WriteCall(AddrAt(tbl, k), ValAt(tbl, k))]

QuietWrites == << WriteCall(REG_LOUT1, 0), WriteCall(REG_ROUT1, 0) >>

\* the (address, value) entries of the full operating table
ActiveEntries ==
    { << AddrAt(csys_es8328_regs, k), ValAt(csys_es8328_regs, k) >> :
        k \in 1..(NumEntries(csys_es8328_regs) - 1) }

\* the codec registers hold the full operating table
HoldsActive == \A e \in ActiveEntries : regs[e[1]] = e[2]

Muted == regs[REG_LOUT1] = 0 /\ regs[REG_ROUT1] = 0

SyncOk == req.r_cpu = 0 /\ req.r_codec = 0

BothClockCalls ==
    << SysclkCall("cpu", CSYS_AUDIO_MCLK, SND_SOC_CLOCK_OUT, 0),
       SysclkCall("codec", CSYS_AUDIO_MCLK, SND_SOC_CLOCK_OUT, 0) >>

\* C1: with a codec bound, once card init has succeeded and no stream
\* start is half way (startup done, hw_params pending), LOUT1 and ROUT1
\* are non-zero only in the Streaming state; after init, after a rejected
\* or failed start and after stop both are 0.
CEx_C1 ==
    (CodecPresent /\ state \in {"Initialized", "Rejected", "ClockFailed", "Stopped"})
        => Muted

\* C2: card init with a codec bound and both clock calls accepted writes
\* exactly (0x2e, 0), (0x2f, 0) and no entry of the full operating table,
\* and until the first stream start LOUT1 and ROUT1 are 0.
Thm_C2 ==
    /\ (lastOp = "init" /\ CodecPresent /\ SyncOk) =>
          /\ Writes(calls) = QuietWrites
          /\ \A i \in 1..Len(calls) :
                IsWrite(calls[i]) => << calls[i].a, calls[i].b >> \notin ActiveEntries
    /\ (state = "Initialized" /\ CodecPresent) => Muted

Wit_C2 ==
    /\ state = "Initialized" /\ lastOp = "init" /\ CodecPresent
    /\ req.from = "InitFailed"
    /\ Len(Writes(calls)) = 2

\* C3: a stream start asking for a rate other than 44100 returns -EINVAL
\* and leaves both DAI clock configurations and every codec register as
\* they were when the stream start began.
CEx_C3 ==
    (lastOp = "hw_params" /\ req.rate # CSYS_AUDIO_LRCLK) =>
        /\ ret = -EINVAL
        /\ regs = entry.regs
        /\ cpu_clk = entry.cpu
        /\ codec_clk = entry.codec

\* C4: a stream start with rate 44100 whose two clock calls are accepted
\* returns 0, issues exactly the cpu clock call followed by the codec
\* clock call (startup issues none), and with a codec bound leaves the
\* registers holding the full operating table.
Thm_C4 ==
    /\ (lastOp = "hw_params" /\ req.rate = CSYS_AUDIO_LRCLK /\ SyncOk) =>
          /\ ret = 0
          /\ state = "Streaming"
          /\ calls = BothClockCalls
          /\ CodecPresent => HoldsActive
    /\ lastOp = "startup" => Clocks(calls) = << >>

Wit_C4 ==
    /\ lastOp = "hw_params" /\ req.rate = CSYS_AUDIO_LRCLK /\ SyncOk
    /\ req.from = "Opened"
    /\ CodecPresent
    /\ regs[REG_LOUT1] = 36

\* C5: stream stop with a codec bound writes the quiet table and leaves
\* LOUT1 and ROUT1 at 0 whatever state the stream was in (streaming,
\* rejected, clock failure, only opened); it always completes.
Thm_C5 ==
    /\ (lastOp = "shutdown" /\ CodecPresent) =>
          /\ calls = QuietWrites
          /\ Muted
    /\ lastOp = "shutdown" => state = "Stopped"
    /\ (state = "Stopped" /\ CodecPresent) => Muted

Wit_C5 ==
    /\ lastOp = "shutdown" /\ CodecPresent
    /\ req.from = "Rejected"
    /\ entry.regs[REG_LOUT1] = 36

\* C6: in csys_audio_set_mclk, a refused cpu clock call is returned and
\* no codec clock call is issued; an accepted cpu call with a refused
\* codec call returns the codec's error; 0 is returned only when both
\* were accepted; the codec call never comes before the cpu call.
Thm_C6 ==
    (lastOp = "init" \/ (lastOp = "hw_params" /\ req.rate = CSYS_AUDIO_LRCLK)) =>
        LET clk == Clocks(calls) IN
        /\ req.r_cpu # 0 =>
              /\ ret = req.r_cpu
              /\ \A i \in 1..Len(clk) : clk[i].dev # "codec"
        /\ (req.r_cpu = 0 /\ req.r_codec # 0) =>
              /\ ret = req.r_codec
              /\ Len(clk) = 2 /\ clk[2].dev = "codec" /\ clk[2].ret = ret
        /\ ret = 0 => (SyncOk /\ clk = BothClockCalls)
        /\ Len(clk) >= 1 /\ clk[1].dev = "cpu" /\ clk[1].ret = req.r_cpu
        /\ \A i \in 1..Len(clk) :
              clk[i].dev = "codec" => \E j \in 1..(i - 1) : clk[j].dev = "cpu"

Wit_C6 ==
    /\ lastOp = "hw_params" /\ req.rate = CSYS_AUDIO_LRCLK
    /\ req.r_cpu = -5 /\ req.r_codec = -EINVAL
    /\ ret = -5
    /\ Len(calls) = 1

\* C7: with no codec bound, no handler ever issues a register write and
\* the registers never change; init fails exactly when the synchronizer
\* fails, startup succeeds, hw_params fails exactly when the rate is not
\* 44100 or the synchronizer fails, and shutdown always completes.
Thm_C7 ==
    ~CodecPresent =>
        /\ Writes(calls) = << >>
        /\ regs = entry.regs
        /\ lastOp = "init" => (ret = 0 <=> SyncOk)
        /\ lastOp = "startup" => ret = 0
        /\ lastOp = "hw_params" =>
              (ret = 0 <=> (req.rate = CSYS_AUDIO_LRCLK /\ SyncOk))
        /\ lastOp = "shutdown" => state = "Stopped"

Wit_C7 ==
    /\ ~comp1
    /\ lastOp = "shutdown" /\ req.from = "Streaming"
    /\ regs[REG_LOUT1] = 36

\* C8: card init whose synchronizer fails returns that failure and issues
\* no register write; every write of card init comes after two accepted
\* clock calls.
Thm_C8 ==
    /\ (lastOp = "init" /\ ~SyncOk) =>
          /\ ret # 0
          /\ ret = (IF req.r_cpu # 0 THEN req.r_cpu ELSE req.r_codec)
          /\ state = "InitFailed"
          /\ Writes(calls) = << >>
          /\ regs = entry.regs
    /\ lastOp = "init" =>
          \A i \in 1..Len(calls) :
              IsWrite(calls[i]) => (i > 2 /\ SubSeq(calls, 1, 2) = BothClockCalls)

Wit_C8 ==
    /\ lastOp = "init" /\ CodecPresent
    /\ req.r_cpu = 0 /\ req.r_codec # 0
    /\ regs[REG_LOUT1] = 36

\* C9: after rejected stream starts, followed by a stop or not, a stream
\* start with rate 44100 whose clock calls are accepted returns 0 and
\* ends with the full operating table in the registers of a bound codec.
Thm_C9 ==
    (/\ nRejected > 0
     /\ lastOp = "hw_params" /\ req.rate = CSYS_AUDIO_LRCLK /\ SyncOk) =>
        /\ ret = 0
        /\ state = "Streaming"
        /\ CodecPresent => (HoldsActive /\ ~Muted)

Wit_C9 ==
    /\ nRejected >= 2
    /\ lastOp = "hw_params" /\ req.rate = CSYS_AUDIO_LRCLK /\ SyncOk
    /\ req.from = "Rejected"
    /\ CodecPresent

\* C10: applying a table that has an end entry (address 0xFF) issues one
\* write per entry before the first end entry, in table order with the
\* entry's address and value, and nothing for the end entry or behind it.
Thm_C10 ==
    lastOp = "set_regs" =>
        /\ calls = TableWrites(profile)
        /\ \A x \in Byte :
              (\A k \in 1..(EndEntry(profile) - 1) : AddrAt(profile, k) # x)
                  => regs[x] = entry.regs[x]

Wit_C10 ==
    /\ lastOp = "set_regs"
    /\ Len(calls) >= 2
    /\ calls[1].b = REG_END
    /\ calls[1].a = calls[2].a
    /\ NumEntries(profile) > EndEntry(profile)

\* C11: from any starting register state, applying a table a second time
\* right after the first changes nothing, and ACTIVE, QUIET, ACTIVE ends
\* in the register state that ACTIVE alone gave.
Thm_C11 ==
    /\ \A i \in 1..(Len(applied) - 1) :
          applied[i] = applied[i + 1] => hist[i + 2] = hist[i + 1]
    /\ \A i \in 1..(Len(applied) - 2) :
          (applied[i] = "ACTIVE" /\ applied[i + 1] = "QUIET"
              /\ applied[i + 2] = "ACTIVE") => hist[i + 3] = hist[i + 1]

Wit_C11 ==
    /\ applied = << "ACTIVE", "QUIET", "ACTIVE" >>
    /\ hist[1] # hist[2]
    /\ hist[3] # hist[2]
    /\ hist[1][45] = 255
    /\ regs = hist[4]

\* C12: within a stream start no ACTIVE write is issued before the rate
\* has been checked and the two clock calls have been made and accepted:
\* startup, which runs before both, issues no write, and a stream start
\* whose synchronizer fails leaves the registers as they were.
CEx_C12 ==
    /\ lastOp = "startup" => Writes(calls) = << >>
    /\ (lastOp = "hw_params" /\ req.from = "Opened"
           /\ req.rate = CSYS_AUDIO_LRCLK /\ ~SyncOk) => regs = entry.regs

QuietAddrs ==
    { AddrAt(csys_es8328_regs_quiet, k) :
        k \in 1..(NumEntries(csys_es8328_regs_quiet) - 1) }

ActiveAddrs == { e[1] : e \in ActiveEntries }

\* C13: applying QUIET at card init and at shutdown sets 0x2e and 0x2f to
\* 0 and changes no other register; after start and stop the registers
\* hold the ACTIVE values with only 0x2e and 0x2f zeroed; the QUIET
\* addresses are among the ACTIVE addresses.
Thm_C13 ==
    [][ /\ lastOp' \in {"init", "shutdown"} =>
             /\ \A x \in Byte \ {REG_LOUT1, REG_ROUT1} : regs'[x] = regs[x]
             /\ Writes(calls') # << >> =>
                   (regs'[REG_LOUT1] = 0 /\ regs'[REG_ROUT1] = 0)
        /\ (state' = "Stopped" /\ CodecPresent) =>
             \A e \in ActiveEntries :
                 regs'[e[1]] = (IF e[1] \in {REG_LOUT1, REG_ROUT1} THEN 0 ELSE e[2])
        /\ QuietAddrs = {REG_LOUT1, REG_ROUT1}
        /\ QuietAddrs \subseteq ActiveAddrs ]_vars

Wit_C13 ==
    /\ state = "Stopped" /\ CodecPresent
    /\ req.from = "Streaming"
    /\ regs[0] = 53 /\ regs[26] = 10
    /\ Muted

\* C15: every clock call of every handler asks for 11289600 Hz, direction
\* out; after a successful synchronizer both DAIs hold that frequency and
\* direction; 11289600 = 256 x 44100.
Thm_C15 ==
    /\ \A i \in 1..Len(calls) :
          IsSysclk(calls[i]) =>
              (calls[i].a = 11289600 /\ calls[i].b = SND_SOC_CLOCK_OUT)
    /\ (lastOp \in {"init", "hw_params"} /\ ret = 0) =>
          /\ cpu_clk = [freq |-> 11289600, dir |-> SND_SOC_CLOCK_OUT]
          /\ codec_clk = cpu_clk
    /\ cpu_clk.freq \in {0, 11289600}
    /\ codec_clk.freq \in {0, 11289600}
    /\ CSYS_AUDIO_MCLK = CSYS_AUDIO_MCLK_FS * CSYS_AUDIO_LRCLK
    /\ CSYS_AUDIO_MCLK_FS = 256 /\ CSYS_AUDIO_LRCLK = 44100

Wit_C15 ==
    /\ lastOp = "hw_params" /\ ret = 0
    /\ req.from = "ClockFailed"
    /\ Len(Clocks(calls)) = 2
    /\ codec_clk.freq = 11289600

\* C17: card init, startup and shutdown program the codec exactly when
\* the runtime has three components and a non-null second one, and write
\* to that component only; a runtime whose component count is not three
\* gets no write even with a non-null second component.
Thm_C17 ==
    LET programs == num_components = 3 /\ comp1 IN
    /\ (lastOp = "init" /\ ret = 0) => (Writes(calls) # << >> <=> programs)
    /\ lastOp = "startup" => (Writes(calls) # << >> <=> programs)
    /\ lastOp = "shutdown" => (Writes(calls) # << >> <=> programs)
    /\ \A i \in 1..Len(calls) :
          IsWrite(calls[i]) => calls[i].dev = "components[1]"
    /\ num_components # 3 => (Writes(calls) = << >> /\ regs = entry.regs)

Wit_C17 ==
    /\ num_components = 4 /\ comp1
    /\ lastOp = "shutdown" /\ req.from = "Streaming"
    /\ regs[REG_LOUT1] = 36

\* C14: with playback and capture opened through the same hooks, LOUT1
\* and ROUT1 keep their non-zero ACTIVE values for as long as at least
\* one started substream has not been shut down.
CEx_C14 ==
    (CodecPresent /\ \E s \in Substreams : sub[s] \in SubOpen) =>
        (regs[REG_LOUT1] = 36 /\ regs[REG_ROUT1] = 36)

\* C16: applying a table ends at an address byte 0xFF at an even offset
\* inside the array, a value byte 0xFF does not end it, and no address
\* 0xFF is written; csys_es8328_regs has its end entry 25th and is done
\* after 24 writes, csys_es8328_regs_quiet has it 3rd and is done after 2.
Thm_C16 ==
    /\ EndEntry(csys_es8328_regs) = 25
    /\ 2 * EndEntry(csys_es8328_regs) <= Len(csys_es8328_regs)
    /\ EndEntry(csys_es8328_regs_quiet) = 3
    /\ 2 * EndEntry(csys_es8328_regs_quiet) <= Len(csys_es8328_regs_quiet)
    /\ lastOp = "set_regs" =>
          LET e == SetRegsExit(profile, 0) IN
          /\ e >= 0 /\ e % 2 = 0 /\ e + 1 <= Len(profile)
          /\ profile[e + 1] = REG_END
          /\ Len(calls) = e \div 2
          /\ \A k \in 1..Len(calls) : calls[k].a # REG_END
          /\ \A k \in 1..(EndEntry(profile) - 1) :
                ValAt(profile, k) = REG_END =>
                    (k <= Len(calls) /\ calls[k].b = REG_END)
          /\ profile = csys_es8328_regs => (Len(calls) = 24 /\ e = 48)
          /\ profile = csys_es8328_regs_quiet => (Len(calls) = 2 /\ e = 4)

Wit_C16 ==
    /\ lastOp = "set_regs"
    /\ profile = csys_es8328_regs
    /\ Len(calls) = 24
    /\ calls[24] = WriteCall(49, 0)

DiscoveryFailed ==
    \/ ~probe.cpu_np
    \/ ~probe.codec_np
    \/ probe.r_args # 0
    \/ probe.r_name # 0

\* C18: a probe that cannot resolve the interface node, the codec node or
\* the codec DAI name returns an error without calling card registration,
\* so card init does not run and no clock call or register write is
\* issued; a deferral of card registration is returned as -EPROBE_DEFER,
\* any other registration error as itself.
Thm_C18 ==
    /\ (lastOp = "probe" /\ probe.alloc /\ DiscoveryFailed) =>
          /\ probe.ret # 0 /\ ret = probe.ret
          /\ ~probe.registered
          /\ ~probe.init_run
          /\ calls = << >>
          /\ regs = entry.regs /\ cpu_clk = entry.cpu /\ codec_clk = entry.codec
          /\ state \in {"ProbeFailed", "Deferred"}
    /\ state \in {"Unprobed", "ProbeFailed", "Deferred"} =>
          /\ calls = << >>
          /\ cpu_clk = ClockUnset /\ codec_clk = ClockUnset
    /\ (lastOp = "probe" /\ probe.registered) =>
          /\ probe.r_card = -EPROBE_DEFER =>
                (probe.ret = -EPROBE_DEFER /\ state = "Deferred" /\ ~probe.init_run)
          /\ probe.r_card \notin {0, -EPROBE_DEFER} =>
                (probe.ret = probe.r_card /\ probe.ret # -EPROBE_DEFER
                    /\ state \in {"ProbeFailed", "InitFailed"})
          /\ probe.r_card = 0 => (probe.ret = 0 /\ state = "Initialized")

Wit_C18 ==
    /\ lastOp = "probe" /\ probe.alloc
    /\ probe.cpu_np /\ probe.codec_np /\ probe.r_args = 0
    /\ probe.r_name = -EINVAL
    /\ req.from = "Deferred"
    /\ req.r_cpu = 0 /\ req.r_codec = 0
    /\ CodecPresent
    /\ regs[REG_LOUT1] = 36

====
